---- MODULE Spec2Model ----
(***************************************************************************)
(* Inter-service communication layer of the LMS backend (backend/shared):  *)
(*  - http_client.py: the CircuitBreaker state machine,                    *)
(*    ServiceHTTPClient._make_request running as cooperative tasks that    *)
(*    share one client (hence one breaker and one session), and the        *)
(*    ServiceRegistry that constructs the clients;                         *)
(*  - event_handler.py: the EventHandler dispatcher (subscriptions,        *)
(*    publish fan-out, bounded history).                                   *)
(*                                                                         *)
(* Time is a discrete clock `now` (seconds); datetime.utcnow() reads it.   *)
(***************************************************************************)
EXTENDS Integers, Sequences, FiniteSets, TLC

\* ---------------------------------------------------------------- bounds
MaxThreshold == 2      \* failure_threshold ranges over 1..MaxThreshold
MaxRetries == 2        \* max_retries ranges over 0..MaxRetries
MaxTime == 3           \* the clock stops advancing at MaxTime
MaxFailures == 3       \* failure_count is capped by guards at MaxFailures

RecoveryTimeouts == {1, 2}          \* values of recovery_timeout explored
RetryDelays == {1, 2}               \* values of retry_delay explored
Tasks == {"t1", "t2"}               \* cooperative tasks calling one client
Statuses == {200, 404, 500}         \* HTTP statuses the destination answers

VARIABLES
    cb,           \* the CircuitBreaker object (its five attributes)
    now,          \* the clock read by datetime.utcnow()
    max_retries,  \* ServiceHTTPClient.max_retries
    retry_delay,  \* ServiceHTTPClient.retry_delay
    session,      \* ServiceHTTPClient.session: "None", "open" or "closed"
    calls,        \* per task: position in _make_request and what it did so far
    last,         \* observer: the latest call made directly on a breaker
    reported,     \* observer: on_failure() calls since the latest on_success()
    probes,       \* observer: can_execute() = true answers given in HALF_OPEN
                  \*           since the latest on_success()/on_failure(), capped at 2
    registry,     \* the ServiceRegistry object: its services and clients dicts
    allocated,    \* number of ServiceHTTPClient objects constructed by the registry
    reg_call,     \* observer: the latest call made on the registry
    subscribers,  \* EventHandler.subscribers: event type -> list of handlers
    event_history,\* EventHandler.event_history: list of events
    max_history,  \* EventHandler.max_history
    published,    \* number of events published so far; the next event's identity
    pubs,         \* per publisher: position in publish() and what it did so far
    feed,         \* the run's publishers, the event types they emit, how many events
    view,         \* the list a caller got from get_event_history() and works on
    dispatchers,  \* the EventHandler objects built by ServiceEventClient.__init__
    event_clients,\* the ServiceEventClient objects returned by get_event_client()
    origin,       \* observer: <<event id, client>> for the events published by clients
    delivered     \* observer: <<dispatcher, handler, event id>> for the handler calls
                  \*           made by the publishes of clients

clientvars == <<cb, now, max_retries, retry_delay, session, calls, last, reported, probes>>
regvars == <<registry, allocated, reg_call>>
evvars == <<subscribers, event_history, max_history, published, pubs, feed, view>>
ecvars == <<dispatchers, event_clients, origin, delivered>>
vars == <<clientvars, regvars, evvars, ecvars>>

\* ------------------------------------------------------- CircuitBreaker
NoTime == <<>>          \* last_failure_time = None; a set time t is <<t>>

CircuitBreaker(threshold, timeout) ==
    [failure_threshold |-> threshold,
     recovery_timeout  |-> timeout,
     failure_count     |-> 0,
     last_failure_time |-> NoTime,
     state             |-> "CLOSED"]

\* Faulty variant: the recovery test admits at exactly recovery_timeout (>= for >).
can_execute_inclusive(b, t) ==
    IF b.state = "CLOSED" THEN [ret |-> TRUE, cb |-> b]
    ELSE IF b.state = "OPEN" THEN
        IF b.last_failure_time # NoTime
           /\ t - b.last_failure_time[1] >= b.recovery_timeout
        THEN [ret |-> TRUE, cb |-> [b EXCEPT !.state = "HALF_OPEN"]]
        ELSE [ret |-> FALSE, cb |-> b]
    ELSE IF b.state = "HALF_OPEN" THEN [ret |-> TRUE, cb |-> b]
    ELSE [ret |-> FALSE, cb |-> b]

\* Faulty variant: going HALF_OPEN also clears failure_count.
can_execute_resets(b, t) ==
    IF b.state = "CLOSED" THEN [ret |-> TRUE, cb |-> b]
    ELSE IF b.state = "OPEN" THEN
        IF b.last_failure_time # NoTime
           /\ t - b.last_failure_time[1] > b.recovery_timeout
        THEN [ret |-> TRUE,
              cb |-> [b EXCEPT !.state = "HALF_OPEN", !.failure_count = 0]]
        ELSE [ret |-> FALSE, cb |-> b]
    ELSE IF b.state = "HALF_OPEN" THEN [ret |-> TRUE, cb |-> b]
    ELSE [ret |-> FALSE, cb |-> b]

\* can_execute(): the answer and the breaker afterwards, at clock value t.
can_execute(b, t) ==
    IF b.state = "CLOSED" THEN [ret |-> TRUE, cb |-> b]
    ELSE IF b.state = "OPEN" THEN
        IF b.last_failure_time # NoTime
           /\ t - b.last_failure_time[1] > b.recovery_timeout
        THEN [ret |-> TRUE, cb |-> [b EXCEPT !.state = "HALF_OPEN"]]
        ELSE [ret |-> FALSE, cb |-> b]
    ELSE IF b.state = "HALF_OPEN" THEN [ret |-> TRUE, cb |-> b]
    ELSE [ret |-> FALSE, cb |-> b]

\* Faulty variant: on_success() forgets to close the circuit.
on_success_count_only(b) ==
    [b EXCEPT !.failure_count = 0]

\* Faulty variant: on_success() closes the circuit only from HALF_OPEN.
on_success_probe_only(b) ==
    [b EXCEPT !.failure_count = 0,
              !.state = IF @ = "HALF_OPEN" THEN "CLOSED" ELSE @]

on_success(b) ==
    [b EXCEPT !.failure_count = 0, !.state = "CLOSED"]

\* Faulty variant: the circuit opens one failure early.
on_failure_eager(b, t) ==
    LET n == b.failure_count + 1
    IN  [b EXCEPT !.failure_count = n,
                  !.last_failure_time = <<t>>,
                  !.state = IF n + 1 >= b.failure_threshold THEN "OPEN" ELSE @]

\* Faulty variant: the threshold test is strict (> for >=).
on_failure_strict(b, t) ==
    LET n == b.failure_count + 1
    IN  [b EXCEPT !.failure_count = n,
                  !.last_failure_time = <<t>>,
                  !.state = IF n > b.failure_threshold THEN "OPEN" ELSE @]

on_failure(b, t) ==
    LET n == b.failure_count + 1
    IN  [b EXCEPT !.failure_count = n,
                  !.last_failure_time = <<t>>,
                  !.state = IF n >= b.failure_threshold THEN "OPEN" ELSE @]

\* ------------------------------------------------------------ observers
NoBreaker == [state |-> "none"]

\* `last`: the operation, its answer, the breaker before it, the clock at the call,
\* the operation before it, and `fails`: the on_failure() calls made on the breaker
\* since it was built, or -1 once on_success() has been called on it.
NoCall ==
    [op |-> "none", ret |-> FALSE, before |-> NoBreaker, at |-> 0, prev |-> "none",
     fails |-> 0]

Bump(n) == IF n < 2 THEN n + 1 ELSE 2

\* probes after a can_execute() whose answer is r (r.cb is the breaker afterwards)
ProbesAfter(r) ==
    IF r.ret /\ r.cb.state = "HALF_OPEN" THEN Bump(probes) ELSE probes

\* failure_count is explored up to MaxFailures, and at least one past the
\* breaker's threshold.
FailureCap(b) ==
    IF b.failure_threshold + 1 > MaxFailures THEN b.failure_threshold + 1
    ELSE MaxFailures

\* ------------------------------------------------ direct breaker calls
\* test_circuit_breaker drives a breaker object directly.
BreakerCanExecute ==
    LET r == can_execute(cb, now)
    IN  /\ cb' = r.cb
        /\ last' = [op |-> "can_execute", ret |-> r.ret, before |-> cb, at |-> now,
                    prev |-> last.op, fails |-> last.fails]
        /\ probes' = ProbesAfter(r)
        /\ UNCHANGED <<now, max_retries, retry_delay, session, calls, reported, regvars, evvars, ecvars>>

BreakerOnSuccess ==
    /\ cb' = on_success(cb)
    /\ last' = [op |-> "on_success", ret |-> FALSE, before |-> cb, at |-> now,
                prev |-> last.op, fails |-> -1]
    /\ reported' = 0
    /\ probes' = 0
    /\ UNCHANGED <<now, max_retries, retry_delay, session, calls, regvars, evvars, ecvars>>

BreakerOnFailure ==
    /\ cb.failure_count < FailureCap(cb)
    /\ cb' = on_failure(cb, now)
    /\ last' = [op |-> "on_failure", ret |-> FALSE, before |-> cb, at |-> now,
                prev |-> last.op,
                fails |-> IF last.fails >= 0 THEN last.fails + 1 ELSE -1]
    /\ reported' = reported + 1
    /\ probes' = 0
    /\ UNCHANGED <<now, max_retries, retry_delay, session, calls, regvars, evvars, ecvars>>

\* Time passes between calls.
Tick ==
    /\ now < MaxTime
    /\ now' = now + 1
    /\ UNCHANGED <<cb, max_retries, retry_delay, session, calls, last, reported, probes, regvars, evvars, ecvars>>

\* ------------------------------------------------------------- the client
NoResp == [kind |-> "none", status |-> 0]

\* What one network attempt can end with: an HTTP response whose body decodes, a
\* 2xx response whose body is not JSON (response.json() raises ContentTypeError, a
\* ClientResponseError carrying the response's status), a connection-level failure
\* (ClientConnectorError, ServerTimeoutError), another aiohttp ClientError, or an
\* exception that is no ClientError at all.
Responses ==
    [kind : {"response"}, status : Statuses]
        \cup [kind : {"ContentTypeError"}, status : {s \in Statuses : s < 400}]
        \cup {[kind |-> k, status |-> 0] : k \in {"connection", "ClientError", "Exception"}}

\* The attempt raised ClientResponseError: raise_for_status() on a status >= 400,
\* or response.json() on a body that is not JSON.
IsResponseError(resp) ==
    \/ resp.kind = "response" /\ resp.status >= 400
    \/ resp.kind = "ContentTypeError"

IdleCall ==
    [pc |-> "idle", attempt |-> 0, attempts |-> 0, sleeps |-> <<>>, wake_at |-> 0,
     n5xx |-> 0, resp |-> NoResp, error |-> "none", detail |-> "none", status |-> 0,
     sent_state |-> "none"]

RECURSIVE Pow2(_)
Pow2(n) == IF n = 0 THEN 1 ELSE 2 * Pow2(n - 1)

\* Faulty variant: the delay does not grow with the attempt.
Backoff_constant(delay, attempt) == delay

\* retry_delay * (2 ** attempt)
Backoff(delay, attempt) == delay * Pow2(attempt)

\* raise: the exception's class, its message and, for a response error, its status
Raise(call, error, detail, status) ==
    [call EXCEPT !.pc = "raised", !.error = error, !.detail = detail, !.status = status]

\* self.session.request(...) for the attempt call.attempt, with the breaker b as it
\* is at that moment: a session that is None or closed raises before anything is
\* sent (AttributeError, RuntimeError); otherwise the attempt is on the wire.
SendAttempt(call, b, sess) ==
    IF sess # "open"
    THEN Raise(call, "Exception", "no session", 0)
    ELSE [call EXCEPT !.pc = "request",
                      !.attempts = @ + 1,
                      !.sent_state = b.state]

\* Faulty variant: the breaker's answer is ignored.
BeginRequest_ungated(call, r, sess) ==
    SendAttempt(call, r.cb, sess)

\* _make_request up to its first suspension: the breaker gate (whose answer is r),
\* then the first attempt.
BeginRequest(call, r, sess) ==
    IF ~r.ret
    THEN Raise(call, "ServiceUnavailableError", "is unavailable", 0)
    ELSE SendAttempt(call, r.cb, sess)

\* Faulty variant: one retry more than max_retries.
RetryOrRaise_extra(call, t, retries, delay, detail) ==
    IF call.attempt <= retries
    THEN [call EXCEPT !.pc = "sleep",
                      !.sleeps = Append(@, Backoff(delay, call.attempt)),
                      !.wake_at = t + Backoff(delay, call.attempt)]
    ELSE Raise(call, "ServiceUnavailableError", detail, 0)

\* A retryable failure at attempt call.attempt: back off and continue, or give up.
RetryOrRaise(call, t, retries, delay, detail) ==
    IF call.attempt < retries
    THEN [call EXCEPT !.pc = "sleep",
                      !.sleeps = Append(@, Backoff(delay, call.attempt)),
                      !.wake_at = t + Backoff(delay, call.attempt)]
    ELSE Raise(call, "ServiceUnavailableError", detail, 0)

\* Faulty variant: any other ClientError is retried like a connection failure.
HandleResponse_retryClientError(call, resp, b, t, retries, delay) ==
    LET seen == [call EXCEPT !.resp = resp,
                             !.n5xx = IF resp.kind = "response" /\ resp.status >= 500
                                      THEN @ + 1 ELSE @]
    IN  IF resp.kind = "response" /\ resp.status < 400
        THEN [call |-> [seen EXCEPT !.pc = "returned"], cb |-> on_success(b)]
        ELSE IF IsResponseError(resp)
        THEN [call |-> IF resp.status >= 500
                       THEN RetryOrRaise(seen, t, retries, delay, "returned")
                       ELSE Raise(seen, "ClientResponseError", "response", resp.status),
              cb |-> on_failure(b, t)]
        ELSE IF resp.kind \in {"connection", "ClientError"}
        THEN [call |-> RetryOrRaise(seen, t, retries, delay, "is unreachable"),
              cb |-> on_failure(b, t)]
        ELSE [call |-> Raise(seen, "Exception", "propagated", 0), cb |-> b]

\* Faulty variant: a 4xx is retried like a 5xx.
HandleResponse_retry4xx(call, resp, b, t, retries, delay) ==
    LET seen == [call EXCEPT !.resp = resp,
                             !.n5xx = IF resp.kind = "response" /\ resp.status >= 500
                                      THEN @ + 1 ELSE @]
    IN  IF resp.kind = "response" /\ resp.status < 400
        THEN [call |-> [seen EXCEPT !.pc = "returned"], cb |-> on_success(b)]
        ELSE IF IsResponseError(resp)
        THEN [call |-> IF resp.status >= 400
                       THEN RetryOrRaise(seen, t, retries, delay, "returned")
                       ELSE Raise(seen, "ClientResponseError", "response", resp.status),
              cb |-> on_failure(b, t)]
        ELSE IF resp.kind = "connection"
        THEN [call |-> RetryOrRaise(seen, t, retries, delay, "is unreachable"),
              cb |-> on_failure(b, t)]
        ELSE IF resp.kind = "ClientError"
        THEN [call |-> Raise(seen, "ServiceUnavailableError", "communication failed", 0),
              cb |-> on_failure(b, t)]
        ELSE [call |-> Raise(seen, "Exception", "propagated", 0), cb |-> b]

\* The body of the retry loop once the attempt in flight has ended with resp:
\* the call and the breaker afterwards.
HandleResponse(call, resp, b, t, retries, delay) ==
    LET seen == [call EXCEPT !.resp = resp,
                             !.n5xx = IF resp.kind = "response" /\ resp.status >= 500
                                      THEN @ + 1 ELSE @]
    IN  IF resp.kind = "response" /\ resp.status < 400
        THEN [call |-> [seen EXCEPT !.pc = "returned"], cb |-> on_success(b)]
        ELSE IF IsResponseError(resp)
        THEN [call |-> IF resp.status >= 500
                       THEN RetryOrRaise(seen, t, retries, delay, "returned")
                       ELSE Raise(seen, "ClientResponseError", "response", resp.status),
              cb |-> on_failure(b, t)]
        ELSE IF resp.kind = "connection"
        THEN [call |-> RetryOrRaise(seen, t, retries, delay, "is unreachable"),
              cb |-> on_failure(b, t)]
        ELSE IF resp.kind = "ClientError"
        THEN [call |-> Raise(seen, "ServiceUnavailableError", "communication failed", 0),
              cb |-> on_failure(b, t)]
        ELSE [call |-> Raise(seen, "Exception", "propagated", 0), cb |-> b]

Reports(resp) ==
    IF resp.kind = "response" /\ resp.status < 400 THEN "success"
    ELSE IF resp.kind = "Exception" THEN "nothing"
    ELSE "failure"

\* async with client: __aenter__ puts a new open session on the shared client.
Enter ==
    /\ session' = "open"
    /\ UNCHANGED <<cb, now, max_retries, retry_delay, calls, last, reported, probes, regvars, evvars, ecvars>>

\* __aexit__ closes whatever session the client holds now.
Exit ==
    /\ session # "None"
    /\ session' = "closed"
    /\ UNCHANGED <<cb, now, max_retries, retry_delay, calls, last, reported, probes, regvars, evvars, ecvars>>

\* A task calls get/post/put/patch/delete: _make_request runs to its first await.
Start(c) ==
    /\ calls[c].pc = "idle"
    /\ LET r == can_execute(cb, now)
       IN  /\ cb' = r.cb
           /\ probes' = ProbesAfter(r)
           /\ calls' = [calls EXCEPT ![c] = BeginRequest(@, r, session)]
    /\ UNCHANGED <<now, max_retries, retry_delay, session, last, reported, regvars, evvars, ecvars>>

\* The attempt in flight ends; the loop body runs to the next await or to the end.
Respond(c) ==
    /\ calls[c].pc = "request"
    /\ \E resp \in Responses :
        LET h == HandleResponse(calls[c], resp, cb, now, max_retries, retry_delay)
        IN  /\ Reports(resp) = "failure" => cb.failure_count < FailureCap(cb)
            /\ cb' = h.cb
            /\ calls' = [calls EXCEPT ![c] = h.call]
            /\ reported' = CASE Reports(resp) = "success" -> 0
                             [] Reports(resp) = "failure" -> reported + 1
                             [] OTHER -> reported
            /\ probes' = IF Reports(resp) = "nothing" THEN probes ELSE 0
    /\ UNCHANGED <<now, max_retries, retry_delay, session, last, regvars, evvars, ecvars>>

\* Nothing happens on the client until recovery_timeout has just elapsed since
\* the last failure (d = 1), or is one second short of that (d = 0).
Wait ==
    /\ now <= MaxTime
    /\ cb.last_failure_time # NoTime
    /\ \E d \in {0, 1} :
        /\ cb.last_failure_time[1] + cb.recovery_timeout + d > now
        /\ now' = cb.last_failure_time[1] + cb.recovery_timeout + d
    /\ UNCHANGED <<cb, max_retries, retry_delay, session, calls, last, reported, probes, regvars, evvars, ecvars>>

\* asyncio.sleep returns; `continue` starts the next attempt.
Wake(c) ==
    /\ calls[c].pc = "sleep"
    /\ now >= calls[c].wake_at
    /\ calls' = [calls EXCEPT ![c] =
                    SendAttempt([@ EXCEPT !.attempt = @ + 1], cb, session)]
    /\ UNCHANGED <<cb, now, max_retries, retry_delay, session, last, reported, probes, regvars, evvars, ecvars>>

\* The task is done with the call and may make another one.
Finish(c) ==
    /\ calls[c].pc \in {"returned", "raised"}
    /\ calls' = [calls EXCEPT ![c] = IdleCall]
    /\ UNCHANGED <<cb, now, max_retries, retry_delay, session, last, reported, probes, regvars, evvars, ecvars>>

\* ------------------------------------------------------ ServiceRegistry
\* A url is a sequence of characters, so that rstrip('/') is computed.
Names == {"user", "course"}
Urls == {<<"u">>, <<"u", "/">>, <<"c", "/", "/">>}
MaxClients == 3        \* the registry constructs at most MaxClients clients

\* Defaults of CircuitBreaker.__init__ and ServiceHTTPClient.__init__.
DefaultFailureThreshold == 5
DefaultRecoveryTimeout == 60
DefaultTimeout == 30
DefaultMaxRetries == 3
DefaultRetryDelay == 1

RECURSIVE rstrip(_)
rstrip(url) ==
    IF url # <<>> /\ url[Len(url)] = "/"
    THEN rstrip(SubSeq(url, 1, Len(url) - 1))
    ELSE url

\* Faulty variant: the breaker of a new client tolerates one more failure.
ServiceHTTPClient_lenient(id, base_url) ==
    [id |-> id,
     base_url |-> rstrip(base_url),
     timeout |-> DefaultTimeout,
     max_retries |-> DefaultMaxRetries,
     retry_delay |-> DefaultRetryDelay,
     circuit_breaker |-> CircuitBreaker(DefaultFailureThreshold + 1,
                                        DefaultRecoveryTimeout),
     session |-> "None"]

\* ServiceHTTPClient(base_url) with every other argument defaulted; id stands
\* for the identity of the new object.
ServiceHTTPClient(id, base_url) ==
    [id |-> id,
     base_url |-> rstrip(base_url),
     timeout |-> DefaultTimeout,
     max_retries |-> DefaultMaxRetries,
     retry_delay |-> DefaultRetryDelay,
     circuit_breaker |-> CircuitBreaker(DefaultFailureThreshold, DefaultRecoveryTimeout),
     session |-> "None"]

NoClient == [id |-> 0]
NoUrl == <<>>
NoDict == <<>>          \* the empty dict {}

\* d[k] = v on a dict
Put(d, k, v) == [x \in DOMAIN d \cup {k} |-> IF x = k THEN v ELSE d[x]]

ServiceRegistry == [services |-> NoDict, clients |-> NoDict]

\* Faulty variant: an existing client is kept when the name is registered again.
register_service_keep(reg, name, base_url, id) ==
    [services |-> Put(reg.services, name, base_url),
     clients |-> IF name \in DOMAIN reg.clients THEN reg.clients
                 ELSE Put(reg.clients, name, ServiceHTTPClient(id, base_url))]

register_service(reg, name, base_url, id) ==
    [services |-> Put(reg.services, name, base_url),
     clients |-> Put(reg.clients, name, ServiceHTTPClient(id, base_url))]

\* Faulty variant: a missing client is created on demand.
get_client_autocreate(reg, service_name) ==
    IF service_name \notin DOMAIN reg.clients
    THEN [raised |-> "none", client |-> ServiceHTTPClient(MaxClients + 1, NoUrl),
          registry |-> [reg EXCEPT !.clients =
                            Put(@, service_name,
                                ServiceHTTPClient(MaxClients + 1, NoUrl))]]
    ELSE [raised |-> "none", client |-> reg.clients[service_name], registry |-> reg]

\* The exception raised, the client returned and the registry afterwards.
get_client(reg, service_name) ==
    IF service_name \notin DOMAIN reg.clients
    THEN [raised |-> "ValueError", client |-> NoClient, registry |-> reg]
    ELSE [raised |-> "none", client |-> reg.clients[service_name], registry |-> reg]

get_service_url(reg, service_name) ==
    IF service_name \notin DOMAIN reg.services
    THEN [raised |-> "ValueError", url |-> NoUrl, registry |-> reg]
    ELSE [raised |-> "none", url |-> reg.services[service_name], registry |-> reg]

\* `reg_call`: the registry call made by the latest step, if it was one: the
\* operation, its arguments, what it raised and returned, and the registry
\* before it (the registry after it is `registry`).
NoRegCall ==
    [op |-> "none", name |-> "none", base_url |-> NoUrl, raised |-> "none",
     client |-> NoClient, url |-> NoUrl, before |-> ServiceRegistry]

RegisterService ==
    /\ allocated < MaxClients
    /\ \E name \in Names, base_url \in Urls :
        /\ registry' = register_service(registry, name, base_url, allocated + 1)
        /\ reg_call' = [NoRegCall EXCEPT !.op = "register_service", !.name = name,
                                         !.base_url = base_url,
                                         !.before = registry]
    /\ allocated' = allocated + 1
    /\ UNCHANGED <<clientvars, evvars, ecvars>>

GetClient ==
    /\ \E name \in Names :
        LET r == get_client(registry, name)
        IN  /\ registry' = r.registry
            /\ reg_call' = [NoRegCall EXCEPT !.op = "get_client", !.name = name,
                                             !.raised = r.raised, !.client = r.client,
                                             !.before = registry]
    /\ UNCHANGED <<clientvars, allocated, evvars, ecvars>>

GetServiceUrl ==
    /\ \E name \in Names :
        LET r == get_service_url(registry, name)
        IN  /\ registry' = r.registry
            /\ reg_call' = [NoRegCall EXCEPT !.op = "get_service_url", !.name = name,
                                             !.raised = r.raised, !.url = r.url,
                                             !.before = registry]
    /\ UNCHANGED <<clientvars, allocated, evvars, ecvars>>

\* A call made through a registered client fails and reports it to that
\* client's breaker (the client object is shared by every get_client caller).
ClientFailure ==
    /\ \E name \in DOMAIN registry.clients :
        /\ registry.clients[name].circuit_breaker.failure_count
               < FailureCap(registry.clients[name].circuit_breaker)
        /\ registry' = [registry EXCEPT !.clients[name].circuit_breaker =
                                            on_failure(@, now)]
    /\ reg_call' = NoRegCall
    /\ UNCHANGED <<clientvars, allocated, evvars, ecvars>>

\* --------------------------------------------------------- EventHandler
\* An event is its type and its identity (the number of its publication).
EventTypes == {"user.created", "course.created"}
Handlers == {"h1", "h2"}
Publishers == {"p1", "p2"}
Outcomes == {"return", "Exception", "BaseException"}  \* how an awaited handler ends
MaxSubscriptions == 3  \* handlers subscribed at one time, all types together
MaxEvents == 2         \* events published in a run with subscribers or views
MaxOverflow == 2       \* events published beyond max_history in a long run
MaxMutations == 2
MaxEventClients == 2      \* changes a caller makes to a list it was given

DefaultMaxHistory == 1000

NoType == "None"        \* event_type = None
NoEvent == [event_type |-> NoType, event_id |-> 0]

\* `pubs`: index is the position of the list iterator of the for loop, invoked
\* the handlers called so far, caught the exceptions logged so far, disturbed
\* whether the subscriptions of the event's type were touched during the publish,
\* at_start the handlers subscribed to the event's type when publish was called
\* (kept while the handlers run).
IdlePub ==
    [pc |-> "idle", event |-> NoEvent, index |-> 0, invoked |-> <<>>, caught |-> 0,
     disturbed |-> FALSE, at_start |-> <<>>]

NoView == [held |-> FALSE, alias |-> FALSE, items |-> <<>>, mutations |-> 0, at |-> 0]

\* EventHandler.__init__, with the events the run's publishers will emit.
EventHandler(publishers, types, count) ==
    /\ subscribers = NoDict
    /\ event_history = <<>>
    /\ max_history = DefaultMaxHistory
    /\ published = 0
    /\ pubs = [p \in Publishers |-> IdlePub]
    /\ feed = [publishers |-> publishers, types |-> types, count |-> count]
    /\ view = NoView

subscribe(subs, event_type, handler) ==
    LET s == IF event_type \notin DOMAIN subs THEN Put(subs, event_type, <<>>) ELSE subs
    IN  [s EXCEPT ![event_type] = Append(@, handler)]

\* list.remove(x): the first item equal to x goes
Remove(list, x) ==
    LET i == CHOOSE i \in 1..Len(list) :
                 list[i] = x /\ \A j \in 1..(i - 1) : list[j] # x
    IN  SubSeq(list, 1, i - 1) \o SubSeq(list, i + 1, Len(list))

Contains(list, x) == \E i \in 1..Len(list) : list[i] = x

\* Faulty variant: a handler that is not in the list is ignored silently.
unsubscribe_silent(subs, event_type, handler) ==
    IF event_type \notin DOMAIN subs \/ ~Contains(subs[event_type], handler)
    THEN [raised |-> "none", subscribers |-> subs]
    ELSE [raised |-> "none",
          subscribers |-> [subs EXCEPT ![event_type] = Remove(@, handler)]]

\* The exception raised and the subscribers afterwards.
unsubscribe(subs, event_type, handler) ==
    IF event_type \notin DOMAIN subs
    THEN [raised |-> "none", subscribers |-> subs]
    ELSE IF ~Contains(subs[event_type], handler)
         THEN [raised |-> "ValueError", subscribers |-> subs]
         ELSE [raised |-> "none",
               subscribers |-> [subs EXCEPT ![event_type] = Remove(@, handler)]]

\* Faulty variant: the event is not in the history when the handlers run.
AppendHistory_late(history, event, cap) == history

\* Faulty variant: on overflow the newest event is dropped.
AppendHistory_newest(history, event, cap) ==
    LET h == Append(history, event)
    IN  IF Len(h) > cap THEN SubSeq(h, 1, Len(h) - 1) ELSE h

\* event_history.append(event), then pop(0) when the list is over max_history
AppendHistory(history, event, cap) ==
    LET h == Append(history, event)
    IN  IF Len(h) > cap THEN Tail(h) ELSE h

\* Faulty variant: the handlers are called from the last to the first.
NextHandler_reversed(pub, subs) ==
    LET list == subs[pub.event.event_type]
    IN  IF pub.index < Len(list)
        THEN [pub EXCEPT !.pc = "handler",
                         !.index = @ + 1,
                         !.invoked = Append(@, list[Len(list) - pub.index])]
        ELSE [pub EXCEPT !.pc = "done"]

\* The for loop takes the next item of the (live) list and awaits the handler,
\* or the loop is over and publish returns.
NextHandler(pub, subs) ==
    LET list == subs[pub.event.event_type]
    IN  IF pub.index < Len(list)
        THEN [pub EXCEPT !.pc = "handler",
                         !.index = @ + 1,
                         !.invoked = Append(@, list[pub.index + 1])]
        ELSE [pub EXCEPT !.pc = "done"]

\* publish after the history update, up to its first await or its return.
FanOut(pub, subs) ==
    IF pub.event.event_type \in DOMAIN subs
    THEN NextHandler(pub, subs)
    ELSE [pub EXCEPT !.pc = "done"]

\* The awaited handler ends: `except Exception` logs and the loop goes on; an
\* exception that is not an Exception (asyncio.CancelledError, SystemExit,
\* KeyboardInterrupt) leaves publish.
EndHandler(pub, outcome, subs) ==
    CASE outcome = "return" -> NextHandler(pub, subs)
      [] outcome = "Exception" -> NextHandler([pub EXCEPT !.caught = @ + 1], subs)
      [] OTHER -> [pub EXCEPT !.pc = "raised"]

Filter(history, event_type) ==
    SelectSeq(history, LAMBDA e : e.event_type = event_type)

\* Faulty variant: without a filter the internal list itself is returned.
get_event_history_alias(history, event_type) ==
    IF event_type # NoType
    THEN [alias |-> FALSE, items |-> Filter(history, event_type)]
    ELSE [alias |-> TRUE, items |-> <<>>]

\* The list returned: a new list object (alias FALSE) and its items.
get_event_history(history, event_type) ==
    IF event_type # NoType
    THEN [alias |-> FALSE, items |-> Filter(history, event_type)]
    ELSE [alias |-> FALSE, items |-> history]

\* The items of the list the caller holds.
ViewItems == IF view.alias THEN event_history ELSE view.items

Subscriptions(subs) ==
    LET RECURSIVE Sum(_)
        Sum(S) == IF S = {} THEN 0
                  ELSE LET t == CHOOSE t \in S : TRUE
                       IN  Len(subs[t]) + Sum(S \ {t})
    IN  Sum(DOMAIN subs)

\* Publishers in a fan-out for event_type learn that its subscriptions were touched.
Disturb(event_type) ==
    [p \in Publishers |->
        IF pubs[p].pc = "handler" /\ pubs[p].event.event_type = event_type
        THEN [pubs[p] EXCEPT !.disturbed = TRUE]
        ELSE pubs[p]]

Subscribe ==
    /\ Subscriptions(subscribers) < MaxSubscriptions
    /\ \E event_type \in EventTypes, handler \in Handlers :
        /\ subscribers' = subscribe(subscribers, event_type, handler)
        /\ pubs' = Disturb(event_type)
    /\ UNCHANGED <<clientvars, regvars, ecvars, event_history, max_history, published, feed, view>>

Unsubscribe ==
    /\ \E event_type \in EventTypes, handler \in Handlers :
        /\ subscribers' = unsubscribe(subscribers, event_type, handler).subscribers
        /\ pubs' = Disturb(event_type)
    /\ UNCHANGED <<clientvars, regvars, ecvars, event_history, max_history, published, feed, view>>

\* publish(event) from its call to its first await (or to its return).
PublishStart(p) ==
    /\ p \in feed.publishers
    /\ pubs[p].pc = "idle"
    /\ published < feed.count
    /\ \E event_type \in feed.types :
        LET event == [event_type |-> event_type, event_id |-> published + 1]
        IN  /\ event_history' = AppendHistory(event_history, event, max_history)
            /\ pubs' = [pubs EXCEPT ![p] =
                            FanOut([IdlePub EXCEPT
                                        !.event = event,
                                        !.at_start =
                                            IF event_type \in DOMAIN subscribers
                                            THEN subscribers[event_type] ELSE <<>>],
                                   subscribers)]
    /\ published' = published + 1
    /\ UNCHANGED <<clientvars, regvars, ecvars, subscribers, max_history, feed, view>>

HandlerEnds(p) ==
    /\ pubs[p].pc = "handler"
    /\ \E outcome \in Outcomes :
        LET pub == EndHandler(pubs[p], outcome, subscribers)
        IN  pubs' = [pubs EXCEPT ![p] =
                        IF pub.pc = "handler" THEN pub
                        ELSE [pub EXCEPT !.at_start = <<>>]]
    /\ UNCHANGED <<clientvars, regvars, ecvars, subscribers, event_history, max_history,
                   published, feed, view>>

\* The publisher is done with the publish and may publish again.
PublishFinish(p) ==
    /\ pubs[p].pc \in {"done", "raised"}
    /\ pubs' = [pubs EXCEPT ![p] = IdlePub]
    /\ UNCHANGED <<clientvars, regvars, ecvars, subscribers, event_history, max_history,
                   published, feed, view>>

GetEventHistory ==
    /\ \E event_type \in EventTypes \cup {NoType} :
        LET r == get_event_history(event_history, event_type)
        IN  view' = [held |-> TRUE, alias |-> r.alias, items |-> r.items,
                     mutations |-> 0, at |-> published]
    /\ UNCHANGED <<clientvars, regvars, ecvars, subscribers, event_history, max_history,
                   published, pubs, feed>>

\* What a caller does to the list it holds.
Mutated(op, items) ==
    CASE op = "append" -> Append(items, NoEvent)
      [] op = "pop" -> IF items = <<>> THEN items ELSE Tail(items)
      [] OTHER -> [i \in 1..Len(items) |-> items[Len(items) + 1 - i]]

MutateView ==
    /\ view.held
    /\ view.mutations < MaxMutations
    /\ \E op \in {"append", "pop", "reverse"} :
        IF view.alias
        THEN /\ event_history' = Mutated(op, event_history)
             /\ view' = [view EXCEPT !.mutations = @ + 1]
        ELSE /\ view' = [view EXCEPT !.items = Mutated(op, @), !.mutations = @ + 1]
             /\ UNCHANGED event_history
    /\ UNCHANGED <<clientvars, regvars, ecvars, subscribers, max_history, published, pubs, feed>>

\* ---------------------------------------------------------------- event clients
\* EventHandler(service_name), as an object of its own on the heap
NewDispatcher ==
    [subscribers |-> NoDict, event_history |-> <<>>, max_history |-> DefaultMaxHistory]

\* The module as imported: no ServiceEventClient was built yet.
NoEventClients ==
    /\ dispatchers = <<>>
    /\ event_clients = <<>>
    /\ origin = {}
    /\ delivered = {}

\* Faulty variant: the client works on the process-wide dispatcher.
get_event_client_shared(heap) ==
    [client |-> [event_handler |-> 0], heap |-> heap]

\* get_event_client(S) = ServiceEventClient(S), whose __init__ builds
\* EventHandler(S): the client refers to a new object, the heap's latest.
\* (event_handler = 0 would refer to the process-wide dispatcher event_handlers[S],
\* the one of subscribers / event_history.)
get_event_client(heap) ==
    [client |-> [event_handler |-> Len(heap) + 1],
     heap |-> Append(heap, NewDispatcher)]

\* The dispatcher object a reference points to.
Deref(ref) ==
    IF ref = 0
    THEN [subscribers |-> subscribers, event_history |-> event_history,
          max_history |-> max_history]
    ELSE dispatchers[ref]

\* The object a reference points to becomes d; every other object stays.
Store(ref, d) ==
    IF ref = 0
    THEN /\ subscribers' = d.subscribers
         /\ event_history' = d.event_history
         /\ UNCHANGED dispatchers
    ELSE /\ dispatchers' = [dispatchers EXCEPT ![ref] = d]
         /\ UNCHANGED <<subscribers, event_history>>

\* Number of subscriptions on the dispatchers of the event clients.
RECURSIVE ClientSubscriptions(_)
ClientSubscriptions(heap) ==
    IF heap = <<>> THEN 0
    ELSE Subscriptions(Head(heap).subscribers) + ClientSubscriptions(Tail(heap))

GetEventClient ==
    /\ Len(event_clients) < MaxEventClients
    /\ LET r == get_event_client(dispatchers)
       IN  /\ event_clients' = Append(event_clients, r.client)
           /\ dispatchers' = r.heap
    /\ UNCHANGED <<clientvars, regvars, evvars, origin, delivered>>

\* event_client.event_handler.subscribe(event_type, handler)
ClientSubscribe(k) ==
    /\ k \in DOMAIN event_clients
    /\ Subscriptions(subscribers) + ClientSubscriptions(dispatchers) < MaxSubscriptions
    /\ \E event_type \in EventTypes, handler \in Handlers :
        LET ref == event_clients[k].event_handler
            d == Deref(ref)
        IN  Store(ref, [d EXCEPT !.subscribers = subscribe(@, event_type, handler)])
    /\ UNCHANGED <<clientvars, regvars, max_history, published, pubs, feed, view,
                   event_clients, origin, delivered>>

\* A convenience method of the client (user_created, enrollment_created, ...):
\* event_handler.publish_event(type, data), which builds the event and awaits
\* publish on the client's dispatcher; the handlers return or raise an Exception.
ClientPublish(k) ==
    /\ k \in DOMAIN event_clients
    /\ published < feed.count
    /\ \E event_type \in feed.types :
        LET ref == event_clients[k].event_handler
            d == Deref(ref)
            event == [event_type |-> event_type, event_id |-> published + 1]
            list == IF event_type \in DOMAIN d.subscribers
                    THEN d.subscribers[event_type] ELSE <<>>
        IN  /\ Store(ref, [d EXCEPT !.event_history =
                                        AppendHistory(@, event, d.max_history)])
            /\ delivered' = delivered \cup
                   {<<ref, list[i], event.event_id>> : i \in 1..Len(list)}
            /\ origin' = origin \cup {<<event.event_id, k>>}
    /\ published' = published + 1
    /\ UNCHANGED <<clientvars, regvars, max_history, pubs, feed, view, event_clients>>

\* A breaker and a client as constructed, the breaker's recovery_timeout drawn
\* from timeouts and the client holding the session sess.
Setup(timeouts, sess) ==
    /\ \E threshold \in 1..MaxThreshold, timeout \in timeouts :
           cb = CircuitBreaker(threshold, timeout)
    /\ now = 0
    /\ max_retries \in 0..MaxRetries
    /\ retry_delay \in RetryDelays
    /\ session = sess
    /\ calls = [c \in Tasks |-> IdleCall]
    /\ last = NoCall
    /\ reported = 0
    /\ probes = 0
    /\ registry = ServiceRegistry
    /\ allocated = 0
    /\ reg_call = NoRegCall
    /\ NoEventClients

\* The client has been entered (async with client:), so its session is open.
Init == Setup({1}, "open") /\ EventHandler(Publishers, EventTypes, MaxEvents)

\* A breaker built on its own, as test_circuit_breaker builds one.
InitBreaker == Setup(RecoveryTimeouts, "None") /\ EventHandler(Publishers, EventTypes, MaxEvents)

NextBreaker == BreakerCanExecute \/ BreakerOnSuccess \/ BreakerOnFailure \/ Tick

\* A breaker object driven directly, one call after another.
SpecBreaker == InitBreaker /\ [][NextBreaker]_vars

Next ==
    \/ Tick
    \/ \E c \in Tasks : Start(c)
    \/ \E c \in Tasks : Respond(c)
    \/ \E c \in Tasks : Wake(c)
    \/ \E c \in Tasks : Finish(c)

\* Tasks on one event loop calling through one shared client inside its
\* `async with` block.
Spec == Init /\ [][Next]_vars

\* The client as constructed (session None), with tasks entering and leaving
\* `async with client` blocks around their calls.
InitSession == Setup({1}, "None") /\ EventHandler(Publishers, EventTypes, MaxEvents)

NextSession == Next \/ Enter \/ Exit

SpecSession == InitSession /\ [][NextSession]_vars

\* The client that the registry constructs for a registered name, every
\* setting at its default, entered by its callers.
InitDefault ==
    LET reg == register_service(ServiceRegistry, "user", <<"u", "/">>, 1)
        client == get_client(reg, "user").client
    IN  /\ registry = reg
        /\ allocated = 1
        /\ reg_call = NoRegCall
        /\ cb = client.circuit_breaker
        /\ max_retries = client.max_retries
        /\ retry_delay = client.retry_delay
        /\ session = "open"
        /\ now = 0
        /\ calls = [c \in Tasks |-> IdleCall]
        /\ last = NoCall
        /\ reported = 0
        /\ probes = 0
        /\ EventHandler(Publishers, EventTypes, MaxEvents)
        /\ NoEventClients

NextDefault == Next \/ Wait

SpecDefault == InitDefault /\ [][NextDefault]_vars

\* A registry as constructed, then registrations, lookups and failing calls
\* through the registered clients.
InitRegistry ==
    /\ Setup({1}, "None")
    /\ cb.failure_threshold = 1
    /\ max_retries = 0
    /\ retry_delay = 1
    /\ EventHandler(Publishers, EventTypes, MaxEvents)

NextRegistry == RegisterService \/ GetClient \/ GetServiceUrl \/ ClientFailure

SpecRegistry == InitRegistry /\ [][NextRegistry]_vars

\* One dispatcher with handlers subscribing to both event types and
\* unsubscribing while a publisher publishes events of one type.
InitEvents ==
    /\ Setup({1}, "None")
    /\ cb.failure_threshold = 1
    /\ max_retries = 0
    /\ retry_delay = 1
    /\ EventHandler({"p1"}, {"user.created"}, MaxEvents)

NextEvents ==
    \/ Subscribe
    \/ Unsubscribe
    \/ \E p \in Publishers : PublishStart(p)
    \/ \E p \in Publishers : HandlerEnds(p)
    \/ \E p \in Publishers : PublishFinish(p)

SpecEvents == InitEvents /\ [][NextEvents]_vars

\* One dispatcher without subscribers that receives more events, all of one
\* type, than its history holds.
InitHistory ==
    /\ Setup({1}, "None")
    /\ cb.failure_threshold = 1
    /\ max_retries = 0
    /\ retry_delay = 1
    /\ EventHandler({"p1"}, {"user.created"}, DefaultMaxHistory + MaxOverflow)

NextHistory ==
    \/ \E p \in Publishers : PublishStart(p)
    \/ \E p \in Publishers : PublishFinish(p)

SpecHistory == InitHistory /\ [][NextHistory]_vars

\* One dispatcher without subscribers, its publishers, and a caller working on
\* the list that get_event_history() returned.
NextSnapshot ==
    \/ \E p \in Publishers : PublishStart(p)
    \/ \E p \in Publishers : PublishFinish(p)
    \/ GetEventHistory
    \/ MutateView

SpecSnapshot == InitRegistry /\ [][NextSnapshot]_vars

\* One dispatcher, handlers subscribed to both event types, and two publishers
\* (tasks of one event loop) that publish events of one type.
InitOverlap ==
    /\ Setup({1}, "None")
    /\ cb.failure_threshold = 1
    /\ max_retries = 0
    /\ retry_delay = 1
    /\ EventHandler(Publishers, {"user.created"}, MaxEvents)

NextOverlap ==
    \/ Subscribe
    \/ \E p \in Publishers : PublishStart(p)
    \/ \E p \in Publishers : HandlerEnds(p)
    \/ \E p \in Publishers : PublishFinish(p)

SpecOverlap == InitOverlap /\ [][NextOverlap]_vars

\* The process-wide dispatcher after the service's setup_event_handlers() has
\* subscribed a handler, its publisher, and the event clients that request
\* handlers build with get_event_client().
InitClients ==
    /\ Setup({1}, "None")
    /\ cb.failure_threshold = 1
    /\ max_retries = 0
    /\ retry_delay = 1
    /\ subscribers = subscribe(NoDict, "user.created", "h1")
    /\ event_history = <<>>
    /\ max_history = DefaultMaxHistory
    /\ published = 0
    /\ pubs = [p \in Publishers |-> IdlePub]
    /\ feed = [publishers |-> {"p1"}, types |-> {"user.created"}, count |-> MaxEvents]
    /\ view = NoView

NextClients ==
    \/ GetEventClient
    \/ \E k \in 1..MaxEventClients : ClientSubscribe(k)
    \/ \E k \in 1..MaxEventClients : ClientPublish(k)
    \/ \E p \in Publishers : PublishStart(p)
    \/ \E p \in Publishers : HandlerEnds(p)
    \/ \E p \in Publishers : PublishFinish(p)

SpecClients == InitClients /\ [][NextClients]_vars

\* ================================================================ claims
Elapsed(b, t) == t - b.last_failure_time[1]

\* C1: from a freshly constructed breaker with threshold T >= 1, after T
\* on_failure() calls with no on_success() the state is OPEN, and a can_execute()
\* made right after the T-th failure, before recovery_timeout has elapsed,
\* returns false.
C1_OpensAtThreshold ==
    /\ (last.op = "on_failure" /\ last.fails = cb.failure_threshold)
           => cb.state = "OPEN"
    /\ ( /\ last.op = "can_execute" /\ last.prev = "on_failure"
         /\ last.fails = cb.failure_threshold
         /\ last.at - last.before.last_failure_time[1] <= cb.recovery_timeout )
           => (~last.ret /\ cb.state = "OPEN")

C1_Witness ==
    /\ last.op = "can_execute" /\ last.prev = "on_failure"
    /\ cb.failure_threshold = 2 /\ last.fails = 2
    /\ ~last.ret
    /\ cb.state = "OPEN"

\* C2: in every state reached by can_execute(), on_success(), on_failure() and
\* the passing of time, state = OPEN implies failure_count >= failure_threshold
\* and last_failure_time is set.
C2_OpenImpliesThreshold ==
    cb.state = "OPEN" =>
        /\ cb.failure_count >= cb.failure_threshold
        /\ cb.last_failure_time # NoTime

C2_Witness ==
    /\ cb.state = "OPEN"
    /\ cb.failure_count > cb.failure_threshold
    /\ last.op = "on_failure" /\ last.before.state = "HALF_OPEN"

\* C3: on an OPEN breaker, can_execute() called while now - last_failure_time <=
\* recovery_timeout returns false and leaves the state OPEN; called once
\* now - last_failure_time > recovery_timeout it returns true and the state is
\* HALF_OPEN.
C3_OpenUntilTimeout ==
    (last.op = "can_execute" /\ last.before.state = "OPEN") =>
        IF Elapsed(last.before, last.at) <= last.before.recovery_timeout
        THEN ~last.ret /\ cb = last.before
        ELSE last.ret /\ cb = [last.before EXCEPT !.state = "HALF_OPEN"]

C3_Witness ==
    /\ last.op = "can_execute" /\ last.before.state = "OPEN"
    /\ last.prev = "can_execute"
    /\ Elapsed(last.before, last.at) = last.before.recovery_timeout + 1
    /\ last.ret
    /\ cb.state = "HALF_OPEN"

\* C5: from every reachable HALF_OPEN state, on_success() yields CLOSED with
\* failure_count 0, and on_failure() yields OPEN with failure_count incremented
\* and last_failure_time updated, whatever failure_count and failure_threshold.
C5_HalfOpenOutcome ==
    last.before.state = "HALF_OPEN" =>
        /\ last.op = "on_success" =>
               (cb.state = "CLOSED" /\ cb.failure_count = 0)
        /\ last.op = "on_failure" =>
               /\ cb.state = "OPEN"
               /\ cb.failure_count = last.before.failure_count + 1
               /\ cb.last_failure_time = <<last.at>>

C5_Witness ==
    /\ last.before.state = "HALF_OPEN"
    /\ last.op = "on_failure"
    /\ last.at > last.before.last_failure_time[1]
    /\ cb.state = "OPEN"

\* C4: in HALF_OPEN exactly one trial is admitted: between the OPEN -> HALF_OPEN
\* transition and the next on_success()/on_failure() report, can_execute()
\* returns true for at most one caller.
C4_SingleProbe == probes <= 1

\* C6: when a call starts and can_execute() returns false, the call raises
\* ServiceUnavailableError at once, with no network attempt and no backoff sleep,
\* and the breaker is left as it was.
C6_DeniedFailsFast ==
    [][\A c \in Tasks :
          ( /\ calls[c].pc = "idle" /\ calls'[c].pc # "idle"
            /\ ~can_execute(cb, now).ret )
          => /\ calls'[c].pc = "raised"
             /\ calls'[c].error = "ServiceUnavailableError"
             /\ calls'[c].attempts = 0
             /\ calls'[c].sleeps = <<>>
             /\ cb' = cb]_vars

C6_Witness ==
    \E c \in Tasks :
        /\ calls[c].pc = "raised"
        /\ calls[c].error = "ServiceUnavailableError"
        /\ calls[c].detail = "is unavailable"
        /\ calls[c].attempts = 0
        /\ cb.state = "OPEN"

\* C7: no network attempt, first or retry, is sent while the breaker is OPEN.
C7_NoAttemptWhileOpen ==
    \A c \in Tasks : calls[c].sent_state # "OPEN"

\* C8: a call all of whose attempts get a 5xx makes exactly max_retries + 1
\* attempts, sleeps retry_delay * 2^n after attempt n for n = 0..max_retries-1,
\* does not sleep after the last attempt, and raises ServiceUnavailableError.
ExpectedSleeps(n) == [i \in 1..n |-> retry_delay * (2 ^ (i - 1))]

C8_ServerErrorsExhaustRetries ==
    \A c \in Tasks :
        (calls[c].attempts > 0 /\ calls[c].n5xx = calls[c].attempts) =>
            \/ /\ calls[c].pc = "sleep"
               /\ calls[c].attempts <= max_retries
               /\ calls[c].sleeps = ExpectedSleeps(calls[c].attempts)
            \/ /\ calls[c].pc = "raised"
               /\ calls[c].error = "ServiceUnavailableError"
               /\ calls[c].attempts = max_retries + 1
               /\ calls[c].sleeps = ExpectedSleeps(max_retries)

C8_Witness ==
    \E c \in Tasks :
        /\ max_retries = 2
        /\ calls[c].pc = "raised"
        /\ calls[c].error = "ServiceUnavailableError"
        /\ calls[c].n5xx = 3
        /\ calls[c].attempts = 3
        /\ calls[c].sleeps = <<retry_delay, 2 * retry_delay>>

\* C9: a 4xx response is never retried: the call ends at that attempt raising the
\* response error with the response's status, with no further attempt and no
\* backoff sleep, and failure_count grows by exactly one; a 4xx on the first
\* attempt means exactly one attempt.
Is4xx(resp) == resp.kind = "response" /\ resp.status >= 400 /\ resp.status < 500

C9_ClientErrorNotRetried ==
    /\ [](\A c \in Tasks :
            (calls[c].pc # "request" /\ Is4xx(calls[c].resp)) =>
                /\ calls[c].pc = "raised"
                /\ calls[c].error = "ClientResponseError"
                /\ calls[c].status = calls[c].resp.status
                /\ calls[c].attempts = calls[c].attempt + 1
                /\ Len(calls[c].sleeps) = calls[c].attempt)
    /\ [][\A c \in Tasks :
            (calls[c].pc = "request" /\ calls'[c].pc # "request" /\ Is4xx(calls'[c].resp))
            => /\ calls'[c].attempts = calls[c].attempts
               /\ calls'[c].sleeps = calls[c].sleeps
               /\ cb'.failure_count = cb.failure_count + 1]_vars

C9_Witness ==
    \E c, e \in Tasks :
        /\ calls[c].pc = "raised" /\ calls[c].error = "ClientResponseError"
        /\ calls[c].attempts = 1 /\ calls[c].sleeps = <<>>
        /\ calls[e].pc = "raised" /\ calls[e].error = "ClientResponseError"
        /\ calls[e].attempts = 2

\* C10: whenever a call returns a response body, on return the breaker is CLOSED
\* with failure_count 0, whatever its state before and however many earlier
\* attempts failed; and on_success() in any breaker state leaves the state CLOSED,
\* failure_count 0 and can_execute() returning true.
C10_SuccessCloses ==
    /\ [](\A st \in {"CLOSED", "OPEN", "HALF_OPEN"} :
            LET b == on_success([cb EXCEPT !.state = st])
            IN  b.state = "CLOSED" /\ b.failure_count = 0 /\ can_execute(b, now).ret)
    /\ [][\A c \in Tasks :
            (calls[c].pc = "request" /\ calls'[c].pc = "returned")
            => (cb'.state = "CLOSED" /\ cb'.failure_count = 0)]_vars

C10_Witness ==
    \E c \in Tasks :
        /\ calls[c].pc = "returned"
        /\ calls[c].attempts >= 2
        /\ calls[c].sent_state = "OPEN"
        /\ cb.state = "CLOSED"
        /\ cb.failure_count = 0

\* C11: a retryable failure (5xx or connection-level) that is followed by a retry
\* leaves failure_count unchanged; only the exhausted call reports a failure.
C11_RetryDoesNotReport ==
    [][\A c \in Tasks :
          (calls[c].pc = "request" /\ calls'[c].pc = "sleep")
          => cb'.failure_count = cb.failure_count]_vars

\* C19: with several calls in flight on one client no breaker update is lost:
\* failure_count is the number of failures reported since the latest reported
\* success.
C19_NoLostUpdate == cb.failure_count = reported

C19_Witness ==
    /\ \A c \in Tasks : calls[c].pc \in {"request", "sleep"}
    /\ \A c \in Tasks : calls[c].attempts >= 2
    /\ reported >= 2
    /\ cb.failure_count = reported

\* C20: the only transition out of OPEN is OPEN -> HALF_OPEN; the breaker never
\* goes from OPEN directly to CLOSED.
C20_OpenLeavesOnlyToHalfOpen ==
    [][cb.state = "OPEN" => cb'.state \in {"OPEN", "HALF_OPEN"}]_vars

\* C17: get_client(name) for an unregistered name raises the not-registered
\* error, returns no client and leaves the registry's two dicts unchanged; for a
\* registered name get_client and get_service_url succeed, and the client
\* returned is bound to the registered url (trailing slashes stripped).
C17_LookupContract ==
    LET n == reg_call.name
        registered == n \in DOMAIN reg_call.before.services
    IN  /\ (reg_call.op \in {"get_client", "get_service_url"} /\ ~registered)
               => /\ reg_call.raised = "ValueError"
                  /\ reg_call.client = NoClient
                  /\ reg_call.url = NoUrl
                  /\ registry = reg_call.before
        /\ (reg_call.op = "get_client" /\ registered)
               => /\ reg_call.raised = "none"
                  /\ reg_call.client # NoClient
                  /\ reg_call.client.base_url = rstrip(reg_call.before.services[n])
                  /\ registry = reg_call.before
        /\ (reg_call.op = "get_service_url" /\ registered)
               => /\ reg_call.raised = "none"
                  /\ reg_call.url = reg_call.before.services[n]

\* get_client of an unregistered name while the other name is registered with
\* a url that ends in a slash.
C17_Witness ==
    /\ reg_call.op = "get_client"
    /\ reg_call.raised = "ValueError"
    /\ \E m \in DOMAIN registry.services :
           /\ registry.services[m] # rstrip(registry.services[m])
           /\ get_client(registry, m).client.base_url = rstrip(registry.services[m])

\* C18: registering a registered name again replaces it without error: the url
\* looked up is the new one and the client looked up is a new object bound to
\* the new url whose breaker is CLOSED with failure_count 0.
C18_ReRegisterReplaces ==
    (reg_call.op = "register_service" /\ reg_call.name \in DOMAIN reg_call.before.clients)
    => LET n == reg_call.name
           old == reg_call.before.clients[n]
           new == get_client(registry, n)
       IN  /\ reg_call.raised = "none"
           /\ get_service_url(registry, n).url = reg_call.base_url
           /\ new.raised = "none"
           /\ new.client.id # old.id
           /\ new.client.base_url = rstrip(reg_call.base_url)
           /\ new.client.circuit_breaker.state = "CLOSED"
           /\ new.client.circuit_breaker.failure_count = 0
           /\ new.client.circuit_breaker.last_failure_time = NoTime

\* The name registered again had a client whose circuit was OPEN, and the url
\* changes.
C18_Witness ==
    /\ reg_call.op = "register_service"
    /\ reg_call.name \in DOMAIN reg_call.before.clients
    /\ reg_call.before.clients[reg_call.name].circuit_breaker.state = "OPEN"
    /\ reg_call.before.services[reg_call.name] # reg_call.base_url
    /\ registry.clients[reg_call.name].circuit_breaker.state = "CLOSED"

\* C12: a registry-created client (threshold 5, recovery_timeout 60): the fifth
\* consecutive failure opens the breaker; a call started while recovery_timeout
\* has not elapsed since the last failure raises ServiceUnavailableError with no
\* attempt; a call started after it has elapsed is sent with the breaker
\* HALF_OPEN; the success of that call leaves the breaker CLOSED with
\* failure_count 0, and a call started on a CLOSED breaker is sent.
C12_DefaultEndToEnd ==
    [][/\ (reported' = reported + 1 /\ reported' >= DefaultFailureThreshold)
              => cb'.state = "OPEN"
       /\ \A c \in Tasks :
            (calls[c].pc = "idle" /\ calls'[c].pc # "idle")
            => /\ ( /\ reported >= DefaultFailureThreshold
                    /\ Elapsed(cb, now) <= DefaultRecoveryTimeout )
                    => /\ calls'[c].pc = "raised"
                       /\ calls'[c].error = "ServiceUnavailableError"
                       /\ calls'[c].attempts = 0
                       /\ cb' = cb
               /\ ( /\ reported >= DefaultFailureThreshold
                    /\ Elapsed(cb, now) > DefaultRecoveryTimeout )
                    => /\ calls'[c].pc = "request"
                       /\ calls'[c].attempts = 1
                       /\ calls'[c].sent_state = "HALF_OPEN"
                       /\ cb'.state = "HALF_OPEN"
               /\ cb.state = "CLOSED"
                    => /\ calls'[c].pc = "request"
                       /\ calls'[c].sent_state = "CLOSED"
       /\ \A c \in Tasks :
            ( /\ calls[c].pc = "request" /\ calls'[c].pc = "returned"
              /\ calls[c].sent_state = "HALF_OPEN" )
            => (cb'.state = "CLOSED" /\ cb'.failure_count = 0)]_vars

\* After the circuit opened and recovery_timeout elapsed, the probe call has
\* returned on its first attempt and the next call is on the wire.
C12_Witness ==
    /\ cb.failure_threshold = DefaultFailureThreshold
    /\ cb.recovery_timeout = DefaultRecoveryTimeout
    /\ now > DefaultRecoveryTimeout
    /\ cb.state = "CLOSED"
    /\ cb.failure_count = 0
    /\ \E c, d \in Tasks :
        /\ calls[c].pc = "returned"
        /\ calls[c].sent_state = "HALF_OPEN"
        /\ calls[c].attempts = 1
        /\ calls[d].pc = "request"
        /\ calls[d].sent_state = "CLOSED"

\* The handlers subscribed to event_type, in subscription order.
SubscribedTo(event_type) ==
    IF event_type \in DOMAIN subscribers THEN subscribers[event_type] ELSE <<>>

\* C13: a publish during which the subscriptions of the event's type are not
\* touched calls the handlers of that type in subscription order, each list
\* entry once, and no other handler: while it runs the handlers called are the
\* list up to the iterator, and when it returns they are the whole list.
C13_InOrderOnce ==
    /\ [](\A p \in Publishers :
            (pubs[p].pc = "handler" /\ ~pubs[p].disturbed)
            => pubs[p].invoked =
                   SubSeq(SubscribedTo(pubs[p].event.event_type), 1, pubs[p].index))
    /\ [][\A p \in Publishers :
            (pubs[p].pc # "done" /\ pubs'[p].pc = "done" /\ ~pubs'[p].disturbed)
            => pubs'[p].invoked = SubscribedTo(pubs'[p].event.event_type)]_vars

\* The publish has returned after calling the two handlers of the event's type
\* in order, while the other type has a subscription too, which led to no call.
C13_Witness ==
    \E p \in Publishers :
        /\ pubs[p].pc = "done"
        /\ ~pubs[p].disturbed
        /\ Len(pubs[p].invoked) = 2
        /\ pubs[p].invoked[1] # pubs[p].invoked[2]
        /\ pubs[p].invoked = SubscribedTo(pubs[p].event.event_type)
        /\ \E t \in DOMAIN subscribers :
               /\ t # pubs[p].event.event_type
               /\ subscribers[t] # <<>>

\* C14: whatever way a handler ends, publish does not raise to the publisher
\* and goes on with the next handler of the list, or returns after the last.
C14_HandlerFailuresIsolated ==
    [][\A p \in Publishers :
          (pubs[p].pc = "handler" /\ pubs'[p].pc # "idle"
             /\ (pubs'[p].pc # "handler" \/ pubs'[p].index # pubs[p].index))
          => LET list == SubscribedTo(pubs[p].event.event_type)
             IN  /\ pubs'[p].pc # "raised"
                 /\ pubs[p].index < Len(list)
                        => /\ pubs'[p].pc = "handler"
                           /\ pubs'[p].invoked = Append(pubs[p].invoked,
                                                        list[pubs[p].index + 1])
                 /\ pubs[p].index >= Len(list) => pubs'[p].pc = "done"]_vars

\* C15: the history never holds more than max_history (1000) events, and
\* get_event_history() returns the latest max_history events published, in
\* publication order: once n > max_history events were published, the oldest
\* n - max_history are absent.
C15_HistoryBounded ==
    LET got == get_event_history(event_history, NoType).items
        dropped == IF published > max_history THEN published - max_history ELSE 0
    IN  /\ max_history = DefaultMaxHistory
        /\ Len(event_history) <= max_history
        /\ Len(got) = published - dropped
        /\ \A i \in 1..Len(got) : got[i].event_id = dropped + i

\* More events than the history holds have been published.
C15_Witness ==
    /\ published >= DefaultMaxHistory + 2
    /\ Len(event_history) = DefaultMaxHistory
    /\ event_history[1].event_id = published - DefaultMaxHistory + 1
    /\ event_history[DefaultMaxHistory].event_id = published

\* C16: changing the list that get_event_history returned (with or without a
\* filter) never changes the dispatcher's history, and a later publish never
\* changes a list returned earlier.
C16_HistoryIsSnapshot ==
    [][view.held =>
          /\ (view'.held /\ view'.mutations = view.mutations + 1)
                 => event_history' = event_history
          /\ published' # published
                 => (view' = view /\ ViewItems' = ViewItems)]_vars

\* The caller has changed an unfiltered list it was given when the history was
\* not empty, and an event was published after the list was returned.
C16_Witness ==
    /\ view.held
    /\ view.at >= 1
    /\ view.mutations >= 1
    /\ published > view.at
    /\ Len(ViewItems) >= 2
    /\ ViewItems[Len(ViewItems)] = NoEvent
    /\ \A i \in 1..Len(event_history) : event_history[i].event_id = i

\* C21: in CLOSED, on_failure() adds exactly 1 to failure_count, records
\* last_failure_time and leaves the state CLOSED while the new count is below
\* failure_threshold; on_success() resets the count and stays CLOSED; so the
\* breaker opens from CLOSED only when failure_threshold failures were reported
\* with no success between them.
C21_ClosedCounts ==
    last.before.state = "CLOSED" =>
        /\ last.op = "on_failure" =>
               /\ cb.failure_count = last.before.failure_count + 1
               /\ cb.last_failure_time = <<last.at>>
               /\ cb.failure_count < cb.failure_threshold => cb.state = "CLOSED"
               /\ cb.state # "CLOSED" =>
                      (cb.state = "OPEN" /\ reported >= cb.failure_threshold)
        /\ last.op = "on_success" =>
               (cb.failure_count = 0 /\ cb.state = "CLOSED")

\* A CLOSED breaker that had been closed by a success opens at its second
\* failure.
C21_Witness ==
    /\ last.op = "on_failure"
    /\ last.before.state = "CLOSED"
    /\ last.before.failure_count = 1
    /\ last.fails = -1
    /\ cb.failure_threshold = 2
    /\ cb.state = "OPEN"
    /\ reported = 2

\* C22: can_execute() never changes failure_count or last_failure_time; it
\* changes the state only from OPEN to HALF_OPEN; in CLOSED and HALF_OPEN it
\* returns true and leaves the breaker as it was.
C22_CanExecuteFrame ==
    last.op = "can_execute" =>
        /\ cb.failure_count = last.before.failure_count
        /\ cb.last_failure_time = last.before.last_failure_time
        /\ cb.failure_threshold = last.before.failure_threshold
        /\ cb.recovery_timeout = last.before.recovery_timeout
        /\ cb.state # last.before.state =>
               (last.before.state = "OPEN" /\ cb.state = "HALF_OPEN" /\ last.ret)
        /\ last.before.state \in {"CLOSED", "HALF_OPEN"} =>
               (last.ret /\ cb = last.before)

\* can_execute() on a HALF_OPEN breaker, right after the can_execute() that
\* made it HALF_OPEN.
C22_Witness ==
    /\ last.op = "can_execute"
    /\ last.prev = "can_execute"
    /\ last.before.state = "HALF_OPEN"
    /\ last.before.failure_count >= 1
    /\ last.ret
    /\ cb = last.before

Measure(call) ==
    CASE call.pc = "idle" -> 0
      [] call.pc = "request" -> 2 * call.attempts - 1
      [] call.pc = "sleep" -> 2 * call.attempts
      [] OTHER -> 2 * (max_retries + 1) + 1

\* C24: a call makes at most max_retries + 1 attempts and max_retries backoff
\* sleeps and never retries indefinitely (every step of a call in progress
\* moves it forward in a bounded order); it ends either returning after an
\* attempt that succeeded or raising an error.
C24_CallTerminates ==
    /\ [](\A c \in Tasks :
            /\ calls[c].attempts <= max_retries + 1
            /\ Len(calls[c].sleeps) <= max_retries
            /\ Measure(calls[c]) <= 2 * (max_retries + 1) + 1
            /\ calls[c].pc = "returned" =>
                   /\ calls[c].resp.kind = "response"
                   /\ calls[c].resp.status < 400
                   /\ calls[c].error = "none"
            /\ calls[c].pc = "raised" => calls[c].error # "none")
    /\ [][\A c \in Tasks :
            (calls[c].pc \in {"request", "sleep"} /\ calls'[c] # calls[c])
            => Measure(calls'[c]) > Measure(calls[c])]_vars

\* A call has given up on connection failures after max_retries + 1 attempts,
\* while the other call returned at its last attempt.
C24_Witness ==
    \E c, d \in Tasks :
        /\ max_retries = 2
        /\ calls[c].pc = "raised"
        /\ calls[c].detail = "is unreachable"
        /\ calls[c].attempts = 3
        /\ Len(calls[c].sleeps) = 2
        /\ calls[d].pc = "returned"
        /\ calls[d].attempts = 3

\* C25: publish puts the event in the history before it calls any handler: the
\* event is what get_event_history(), unfiltered or filtered by its type,
\* returns last while a handler of the publish is running, and it is in the
\* history when the publish has returned or raised, with or without handlers.
C25_RecordedBeforeHandlers ==
    \A p \in Publishers :
        LET event == pubs[p].event
            all == get_event_history(event_history, NoType).items
            typed == get_event_history(event_history, event.event_type).items
        IN  /\ pubs[p].pc = "handler" =>
                   /\ Contains(all, event)
                   /\ Contains(typed, event)
                   /\ Len(pubs[p].invoked) = 1 /\ published = event.event_id
                          => (all[Len(all)] = event /\ typed[Len(typed)] = event)
            /\ pubs[p].pc \in {"done", "raised"} =>
                   (Contains(all, event) /\ Contains(typed, event))

\* The second handler of a publish is running after the first one raised, and
\* the event published is the latest of the history.
C25_Witness ==
    \E p \in Publishers :
        /\ pubs[p].pc = "handler"
        /\ pubs[p].index = 2
        /\ pubs[p].caught = 1
        /\ event_history # <<>>
        /\ event_history[Len(event_history)] = pubs[p].event

\* C27: every handler subscribed to the event's type when publish starts is
\* called exactly once by that publish, in subscription order, also when the
\* subscriptions of that type change during the fan-out.
C27_StartListDelivered ==
    [][\A p \in Publishers :
          (pubs[p].pc # "done" /\ pubs'[p].pc = "done")
          => SelectSeq(pubs'[p].invoked,
                       LAMBDA h : Contains(pubs[p].at_start, h))
                 = pubs[p].at_start]_vars

\* C28: unsubscribe(event_type, handler) of a handler that is not subscribed to
\* event_type changes no subscription; it returns silently when no handler was
\* ever subscribed to the type, and raises when the type has a list without the
\* handler, the empty list left by the removal of the type's last handler
\* included. Stated of the call made in any state of the dispatcher, with any
\* arguments.
C28_UnsubscribeAbsent ==
    \A event_type \in EventTypes, handler \in Handlers :
        ~Contains(SubscribedTo(event_type), handler)
        => LET r == unsubscribe(subscribers, event_type, handler)
           IN  /\ r.subscribers = subscribers
               /\ event_type \notin DOMAIN subscribers => r.raised = "none"
               /\ event_type \in DOMAIN subscribers => r.raised = "ValueError"

\* The last handler of a type was unsubscribed: the type keeps an empty list, on
\* which a further unsubscribe raises, next to a type never subscribed to.
C28_Witness ==
    \E event_type \in EventTypes, other \in EventTypes, handler \in Handlers :
        /\ event_type \in DOMAIN subscribers
        /\ subscribers[event_type] = <<>>
        /\ other \notin DOMAIN subscribers
        /\ unsubscribe(subscribers, event_type, handler).raised = "ValueError"
        /\ unsubscribe(subscribers, other, handler).raised = "none"

\* C26: within one dispatcher, handler invocations for one event type never
\* overlap: a handler starts only after the handler started before it for that
\* type has returned or raised, within one publish and across two publishes
\* of that type that are in flight together.
C26_NoOverlap ==
    \A p \in Publishers, q \in Publishers :
        (/\ p # q
         /\ pubs[p].pc = "handler"
         /\ pubs[q].pc = "handler")
        => pubs[p].event.event_type # pubs[q].event.event_type

\* C29: every network attempt of a client is issued on a session that is open
\* at that moment: no call reaches self.session.request with the session unset
\* or closed, whether it is made outside any `async with client` block or
\* inside one of two overlapping blocks on the shared client.
C29_AttemptOnOpenSession ==
    \A c \in Tasks :
        ~(calls[c].pc = "raised" /\ calls[c].detail = "no session")

HasEvent(history, id) == \E i \in 1..Len(history) : history[i].event_id = id

\* C30: every get_event_client() call builds a client with a new dispatcher of
\* its own, and an event published through a client's convenience method is
\* recorded in that client's history only: it is in the history of neither the
\* process-wide dispatcher nor another client, and no handler subscribed on
\* those dispatchers is called with it.
C30_ClientOwnDispatcher ==
    /\ \A j \in DOMAIN event_clients :
           /\ event_clients[j].event_handler \in DOMAIN dispatchers
           /\ \A k \in DOMAIN event_clients :
                  j # k => event_clients[j].event_handler # event_clients[k].event_handler
    /\ \A o \in origin :
           LET id == o[1]
               ref == event_clients[o[2]].event_handler
           IN  /\ HasEvent(Deref(ref).event_history, id)
               /\ ~HasEvent(event_history, id)
               /\ \A r \in DOMAIN dispatchers :
                      r # ref => ~HasEvent(dispatchers[r].event_history, id)
               /\ \A x \in delivered : x[3] = id => x[1] = ref
               /\ \A p \in Publishers : pubs[p].event.event_id # id

\* A client published an event of a type that has a handler on the process-wide
\* dispatcher and on another client's dispatcher, the process-wide dispatcher
\* having published an event of its own.
C30_Witness ==
    \E o \in origin, j \in DOMAIN event_clients :
        /\ j # o[2]
        /\ SubscribedTo("user.created") # <<>>
        /\ event_history # <<>>
        /\ "user.created" \in DOMAIN Deref(event_clients[j].event_handler).subscribers
        /\ HasEvent(Deref(event_clients[o[2]].event_handler).event_history, o[1])

====
